---- MODULE Spec2Model ----
(***************************************************************************)
(* Model of Solace::Framework::CommandlineParser                           *)
(* (src/src/framework/commandlineParser.cpp): parse, parseCommand,         *)
(* parseOptions, parseOption and the typed Option callbacks.               *)
(*                                                                         *)
(* Strings are sequences of one-character strings.  C array indices are    *)
(* kept 0-based as in the source; Argv(k) is argv[k].                      *)
(***************************************************************************)
EXTENDS Integers, Sequences, FiniteSets, TLC

\* ------------------------------------------------------------------ bounds
\* Largest number of tokens that follow the program name in argv.
MaxArgs == 3

\* ------------------------------------------------------- parser constants
DefaultPrefix == "-"
DefaultValueSeparator == "="

\* --------------------------------------------------------------- strings
EmptyView == << >>
\* A null entry of argv (const char* nullptr); no character string equals it.
NullPtr == << "nullptr" >>

s_app    == << "a", "p", "p" >>
s_name   == << "n", "a", "m", "e" >>
s_age    == << "a", "g", "e" >>
s_force  == << "f", "o", "r", "c", "e" >>
s_f      == << "f" >>
s_x      == << "x" >>
s_flag   == << "f", "l", "a", "g" >>
s_verbose == << "v", "e", "r", "b", "o", "s", "e" >>
s_Alice  == << "A", "l", "i", "c", "e" >>
s_30     == << "3", "0" >>
s_1      == << "1" >>
s_true   == << "t", "r", "u", "e" >>
s_false  == << "f", "a", "l", "s", "e" >>
s_deploy == << "d", "e", "p", "l", "o", "y" >>
s_sub1   == << "s", "u", "b", "1" >>
s_inner  == << "i", "n", "n", "e", "r" >>
s_dep    == << "d", "e", "p" >>
s_rate   == << "r", "a", "t", "e" >>
s_3x     == << "3", "x" >>
s_h      == << "h" >>
s_help   == << "h", "e", "l", "p" >>
s_v      == << "v" >>
s_version == << "v", "e", "r", "s", "i", "o", "n" >>
s_abc    == << "a", "=", "b", "=", "c" >>

Short(n) == << "-" >> \o n
Long(n) == << "-", "-" >> \o n
Inline(opt, v) == opt \o << "=" >> \o v

\* StringView::startsWith(char)
startsWith(s, c) == Len(s) > 0 /\ s[1] = c

\* StringView::substring(from) and StringView::substring(from, len), 0-based
substringFrom(s, from) == SubSeq(s, from + 1, Len(s))
substring(s, from, len) == SubSeq(s, from + 1, from + len)

\* Optional<StringView>
None == [some |-> FALSE, v |-> EmptyView]
Some(s) == [some |-> TRUE, v |-> s]

\* ------------------------------------------------------- results, errors
NoError == [isErr |-> FALSE, msg |-> "", arg |-> EmptyView]
MkError(m, a) == [isErr |-> TRUE, msg |-> m, arg |-> a]

NoResult == [kind |-> "none", callback |-> "", msg |-> "", arg |-> EmptyView]
\* Ok<ParseResult>(cmd.callback())
OkResult(c) == [kind |-> "ok", callback |-> c, msg |-> "", arg |-> EmptyView]
\* fail(msg, args...) / failUint(msg, args...) / Err(error)
fail(m, a) == [kind |-> "err", callback |-> "", msg |-> m, arg |-> a]

\* ------------------------------------------------------ value conversion
Digits == { "0", "1", "2", "3", "4", "5", "6", "7", "8", "9" }
DigitVal(c) ==
    CASE c = "0" -> 0 [] c = "1" -> 1 [] c = "2" -> 2 [] c = "3" -> 3
      [] c = "4" -> 4 [] c = "5" -> 5 [] c = "6" -> 6 [] c = "7" -> 7
      [] c = "8" -> 8 [] c = "9" -> 9

RECURSIVE DecimalValue(_)
DecimalValue(s) ==
    IF Len(s) = 0 THEN 0
    ELSE 10 * DecimalValue(SubSeq(s, 1, Len(s) - 1)) + DigitVal(s[Len(s)])

IsDecimal(s) == Len(s) > 0 /\ \A k \in 1..Len(s) : s[k] \in Digits

\* tryParse<int32>(value): a decimal literal with an optional leading minus
tryParseInt(s) ==
    IF IsDecimal(s) THEN [ok |-> TRUE, val |-> DecimalValue(s)]
    ELSE IF startsWith(s, "-") /\ IsDecimal(substringFrom(s, 1))
         THEN [ok |-> TRUE, val |-> 0 - DecimalValue(substringFrom(s, 1))]
         ELSE [ok |-> FALSE, val |-> 0]

\* tryParse<bool>(value): a boolean literal
tryParseBool(s) ==
    IF s = s_true THEN [ok |-> TRUE, val |-> TRUE]
    ELSE IF s = s_false THEN [ok |-> TRUE, val |-> FALSE]
         ELSE [ok |-> FALSE, val |-> FALSE]

\* ------------------------------------------------------------ the parsers
\* Option(names, desc, expectation, callback): kind selects the typed
\* constructor (its callback), dest the caller-owned destination.
Opt(names, expect, kind, dest) ==
    [names |-> names, expect |-> expect, kind |-> kind, dest |-> dest]

StringOption(names, dest) == Opt(names, "Required", "string", dest)
Int32Option(names, dest) == Opt(names, "Required", "int32", dest)
BoolOption(names, dest) == Opt(names, "Optional", "bool", dest)
Float32Option(names, dest) == Opt(names, "Required", "float32", dest)
\* CommandlineParser::printHelp() and CommandlineParser::printVersion()
printHelp == Opt({ s_h, s_help }, "NotRequired", "help", "none")
printVersion == Opt({ s_v, s_version }, "NotRequired", "version", "none")

Cmd(options, arguments, commands) ==
    [options |-> options, arguments |-> arguments, commands |-> commands]

ParserNames ==
    { "basic", "tree", "args", "both", "dup", "num", "edge", "help", "flat" }

\* The command tree of each parser, flattened: command id -> Command.
\* commands is the map subcommand name -> Command, as <<name, id>> pairs.
CommandTable(p) ==
    CASE p = "basic" ->
           [root |-> Cmd(<< StringOption({ s_name }, "name"),
                            Int32Option({ s_age }, "age"),
                            BoolOption({ s_f, s_force }, "force") >>,
                         << >>, { })]
      [] p = "tree" ->
           [root   |-> Cmd(<< BoolOption({ s_verbose }, "verbose") >>, << >>,
                           { << s_deploy, "deploy" >>, << s_sub1, "sub1" >> }),
            deploy |-> Cmd(<< BoolOption({ s_force }, "force") >>, << >>, { }),
            sub1   |-> Cmd(<< Int32Option({ s_flag }, "flag") >>, << >>,
                           { << s_inner, "inner" >> }),
            inner  |-> Cmd(<< >>, << >>, { })]
      [] p = "args" ->
           [root |-> Cmd(<< BoolOption({ s_force }, "force") >>,
                         << "file" >>, { })]
      [] p = "both" ->
           [root   |-> Cmd(<< >>, << "file" >>, { << s_deploy, "deploy" >> }),
            deploy |-> Cmd(<< BoolOption({ s_force }, "force") >>, << >>, { })]
      [] p = "dup" ->
           [root |-> Cmd(<< BoolOption({ s_f, s_force }, "force"),
                            StringOption({ s_f }, "name") >>,
                         << >>, { })]
      [] p = "num" ->
           [root |-> Cmd(<< Int32Option({ s_age }, "age"),
                            Float32Option({ s_rate }, "rate") >>,
                         << >>, { })]
      [] p = "edge" ->
           [root |-> Cmd(<< BoolOption({ s_x }, "force") >>, << >>,
                         { << s_sub1, "sub1" >> }),
            sub1 |-> Cmd(<< BoolOption({ EmptyView, s_f }, "verbose") >>,
                         << >>, { })]
      [] p = "help" ->
           [root   |-> Cmd(<< printHelp, printVersion >>, << >>,
                           { << s_deploy, "deploy" >> }),
            deploy |-> Cmd(<< printHelp >>, << >>,
                           { << s_inner, "inner" >> }),
            inner  |-> Cmd(<< >>, << >>, { })]
      [] p = "flat" ->
           [root   |-> Cmd(<< >>, << >>,
                           { << s_sub1, "sub1" >>, << s_deploy, "deploy" >> }),
            sub1   |-> Cmd(<< Int32Option({ s_flag }, "flag") >>, << >>, { }),
            deploy |-> Cmd(<< >>, << >>, { })]

\* The tokens argv is drawn from, per parser.
TokenPool(p) ==
    CASE p = "basic" ->
           { Inline(Long(s_name), s_Alice), Long(s_name), s_Alice,
             Long(s_age), s_30, Short(s_x), Long(s_force), NullPtr }
      [] p = "tree" ->
           { s_deploy, Long(s_force), s_sub1, Inline(Long(s_flag), s_1),
             s_inner, s_dep, Long(s_verbose) }
      [] p = "args" ->
           { Long(s_force), s_Alice, s_30, Short(s_x) }
      [] p = "both" ->
           { s_deploy, s_Alice, Long(s_force) }
      [] p = "dup" ->
           { Short(s_f), Inline(Short(s_f), s_true), Inline(Short(s_f), s_Alice),
             Long(s_force), s_false }
      [] p = "num" ->
           { Long(s_age), Long(s_rate), s_30, s_3x, s_Alice,
             Inline(Long(s_rate), EmptyView) }
      [] p = "edge" ->
           { << "-" >>, << "-", "-" >>, Long(s_abc), Short(s_x), s_sub1, s_false }
      [] p = "help" ->
           { Short(s_h), Inline(Long(s_help), s_deploy), Inline(Long(s_help), s_inner),
             s_deploy, s_inner, Short(s_v) }
      [] p = "flat" ->
           { s_sub1, Inline(Long(s_flag), s_1), s_deploy, Long(s_flag) }

\* Destinations as the caller leaves them before parse.
InitDests ==
    { [name |-> EmptyView, age |-> a, rate |-> a, force |-> b, verbose |-> FALSE,
       flag |-> 0, file |-> EmptyView, none |-> 0] : a \in { 0, 7 }, b \in BOOLEAN }

\* ------------------------------------------------------------------ state
VARIABLES
    parser,                  \* which CommandlineParser instance parse is called on
    argc,                    \* parse(argc, argv)
    argv,
    pc,                      \* position in parse / parseCommand / parseOptions
    cmd,                     \* parseCommand: cmd
    offset,                  \* parseCommand: cntx.offset
    i,                       \* parseOptions: loop index
    arg,                     \* parseOptions: arg, the token read at the loop head
    firstPositionalArgument, \* parseOptions: firstPositionalArgument
    argName,                 \* parseOptions: argName of the current token
    argValue,                \* parseOptions: argValue of the current token
    optIndex,                \* parseOptions: position of the inner loop over options
    numberMatched,           \* parseOptions: numberMatched
    dest,                    \* caller-owned destinations bound to Options/Arguments
    calls,                   \* callback invocations made so far, in order
    reads,                   \* indices of argv read so far
    lookups,                 \* subcommand names looked up so far, in order
    depth,                   \* number of parseCommand activations
    result,                  \* value returned by parse
    commandCalls,            \* Command callbacks invoked so far, in order
    run,                     \* which call of parse on this parser and argv this is
    first                    \* what the caller observed of the first call

vars == << parser, argc, argv, pc, cmd, offset, i, arg, firstPositionalArgument,
           argName, argValue, optIndex, numberMatched, dest, calls, reads,
           lookups, depth, result, commandCalls, run, first >>

Argv(k) == argv[k + 1]
Root == CommandTable(parser)["root"]
\* Variant: every Command is parsed against the root's definition.
Active_root == CommandTable(parser)["root"]

\* parseCommand: the Command being parsed, cmd
Active == CommandTable(parser)[cmd]

\* Sequences over S of length at most n.
SeqUpTo(S, n) == UNION { [1..k -> S] : k \in 0..n }

\* ---------------------------------------------------------- pure helpers
\* Option::isMatch
isMatch(option, name) == \E optName \in option.names : optName = name

\* parseOption(arg, prefix, valueSeparator) -> pair (name, value)
RECURSIVE scanToSeparator(_, _, _)
scanToSeparator(token, endIndex, valueSeparator) ==
    IF endIndex < Len(token) /\ token[endIndex + 1] # valueSeparator
    THEN scanToSeparator(token, endIndex + 1, valueSeparator)
    ELSE endIndex

\* Variant: only one prefix character is ever stripped.
parseOption_single(token, prefix, valueSeparator) ==
    LET startIndex == 1
    IN  IF startIndex >= Len(token)
        THEN [name |-> EmptyView, value |-> None]
        ELSE LET endIndex == scanToSeparator(token, startIndex, valueSeparator)
             IN  IF endIndex < Len(token)
                 THEN [name  |-> substring(token, startIndex, endIndex - startIndex),
                       value |-> Some(substringFrom(token, endIndex + 1))]
                 ELSE [name  |-> substringFrom(token, startIndex),
                       value |-> None]

\* Variant: the value keeps the separator in front.
parseOption_keepsSeparator(token, prefix, valueSeparator) ==
    LET startIndex == IF startsWith(substringFrom(token, 1), prefix) THEN 2 ELSE 1
    IN  IF startIndex >= Len(token)
        THEN [name |-> EmptyView, value |-> None]
        ELSE LET endIndex == scanToSeparator(token, startIndex, valueSeparator)
             IN  IF endIndex < Len(token)
                 THEN [name  |-> substring(token, startIndex, endIndex - startIndex),
                       value |-> Some(substringFrom(token, endIndex))]
                 ELSE [name  |-> substringFrom(token, startIndex),
                       value |-> None]

\* parseOption: name and optional inline value of an option token
parseOption(token, prefix, valueSeparator) ==
    LET startIndex == IF startsWith(substringFrom(token, 1), prefix) THEN 2 ELSE 1
    IN  IF startIndex >= Len(token)
        THEN [name |-> EmptyView, value |-> None]
        ELSE LET endIndex == scanToSeparator(token, startIndex, valueSeparator)
             IN  IF endIndex < Len(token)
                 THEN [name  |-> substring(token, startIndex, endIndex - startIndex),
                       value |-> Some(substringFrom(token, endIndex + 1))]
                 ELSE [name  |-> substringFrom(token, startIndex),
                       value |-> None]

\* StringView nextArg{cntx.argv[i + 1]}: constructing a view from a null
\* pointer is not defined by the sources at hand; it either yields the empty
\* view or ends the program.
ViewsOf(ptr) ==
    IF ptr = NullPtr
    THEN { [abort |-> FALSE, view |-> EmptyView], [abort |-> TRUE, view |-> EmptyView] }
    ELSE { [abort |-> FALSE, view |-> ptr] }

\* Variant: the bound check of the lookahead is off by one.
hasLookahead_short(value, index, count) == value.some = FALSE /\ index + 2 < count

\* Variant: the following token is looked at when an inline value is present.
hasLookahead_inverted(value, index, count) == value.some /\ index + 1 < count

\* parseOptions: can the token after argv[i] be taken as the value?
hasLookahead(value, index, count) == value.some = FALSE /\ index + 1 < count

\* Variant: the expectation tested is Optional instead of Required.
missingRequiredValue_optional(option, value) ==
    value.some = FALSE /\ option.expect = "Optional"

\* parseOptions: "Argument is required but none was given"
missingRequiredValue(option, value) ==
    value.some = FALSE /\ option.expect = "Required"

\* Variant: a failed conversion resets the destination.
parseIntArgument_reset(d, option, value) ==
    LET val == tryParseInt(value)
    IN  IF val.ok
        THEN [err |-> NoError, dest |-> [d EXCEPT ![option.dest] = val.val]]
        ELSE [err |-> MkError("Failed to parse value", value),
              dest |-> [d EXCEPT ![option.dest] = 0]]

\* Variant: the parsed value is added to what the destination holds.
parseIntArgument_accumulate(d, option, value) ==
    LET val == tryParseInt(value)
    IN  IF val.ok
        THEN [err |-> NoError,
              dest |-> [d EXCEPT ![option.dest] = d[option.dest] + val.val]]
        ELSE [err |-> MkError("Failed to parse value", value), dest |-> d]

\* parseIntArgument<int32>
parseIntArgument(d, option, value) ==
    LET val == tryParseInt(value)
    IN  IF val.ok
        THEN [err |-> NoError, dest |-> [d EXCEPT ![option.dest] = val.val]]
        ELSE [err |-> MkError("Failed to parse value", value), dest |-> d]

\* Variant: the destination is assigned before the conversion is checked.
parseBoolean_early(d, option, value) ==
    LET val == tryParseBool(value)
    IN  IF val.ok
        THEN [err |-> NoError, dest |-> [d EXCEPT ![option.dest] = val.val]]
        ELSE [err |-> MkError("Failed to parse value", value),
              dest |-> [d EXCEPT ![option.dest] = val.val]]

\* parseBoolean
parseBoolean(d, option, value) ==
    LET val == tryParseBool(value)
    IN  IF val.ok
        THEN [err |-> NoError, dest |-> [d EXCEPT ![option.dest] = val.val]]
        ELSE [err |-> MkError("Failed to parse value", value), dest |-> d]

\* strtof(value.c_str(), &pEnd): the longest decimal prefix of the text is
\* converted (sign and digits; the tokens used carry no fraction or
\* exponent); consumed = 0 stands for pEnd == value.data()
RECURSIVE leadingDigits(_)
leadingDigits(s) ==
    IF Len(s) > 0 /\ s[1] \in Digits THEN 1 + leadingDigits(Tail(s)) ELSE 0

strtof(s) ==
    LET neg == startsWith(s, "-")
        body == IF neg THEN Tail(s) ELSE s
        n == leadingDigits(body)
        abs == DecimalValue(SubSeq(body, 1, n))
    IN  [consumed |-> IF n = 0 THEN 0 ELSE n + (IF neg THEN 1 ELSE 0),
         val |-> IF neg THEN 0 - abs ELSE abs]

\* Variant: the destination is assigned before pEnd is checked, as the
\* float Argument callbacks do.
parseFloatOption_early(d, option, value) ==
    LET val == strtof(value)
    IN  IF val.consumed = 0
        THEN [err |-> MkError("Option '{}' is not float32 value: '{}'", value),
              dest |-> [d EXCEPT ![option.dest] = val.val]]
        ELSE [err |-> NoError, dest |-> [d EXCEPT ![option.dest] = val.val]]

\* callback of Option(names, desc, float32* dest)
parseFloatOption(d, option, value) ==
    LET val == strtof(value)
    IN  IF val.consumed = 0
        THEN [err |-> MkError("Option '{}' is not float32 value: '{}'", value),
              dest |-> d]
        ELSE [err |-> NoError, dest |-> [d EXCEPT ![option.dest] = val.val]]

\* Variant: the lookup goes to the subcommands of the active Command.
helpCommands_active == Active.commands

\* printHelp: cntx.parser.commands(), the subcommands of the parser's root
helpCommands == Root.commands

\* callback of the Option made by CommandlineParser::printHelp()
printHelpCallback(d, value) ==
    IF value.some /\ \A c \in helpCommands : c[1] # value.v
    THEN [err |-> MkError("Unknown command", EmptyView), dest |-> d]
    ELSE [err |-> NoError, dest |-> d]

\* callback of the Option made by CommandlineParser::printVersion()
printVersionCallback(d, value) == [err |-> NoError, dest |-> d]

\* Option::match: the callback installed by the typed Option constructors
match(d, option, value) ==
    CASE option.kind = "string" ->
           [err |-> NoError, dest |-> [d EXCEPT ![option.dest] = value.v]]
      [] option.kind = "int32" -> parseIntArgument(d, option, value.v)
      [] option.kind = "float32" -> parseFloatOption(d, option, value.v)
      [] option.kind = "bool" ->
           IF value.some THEN parseBoolean(d, option, value.v)
           ELSE [err |-> NoError, dest |-> [d EXCEPT ![option.dest] = TRUE]]
      [] option.kind = "help" -> printHelpCallback(d, value)
      [] option.kind = "version" -> printVersionCallback(d, value)

\* Variant: a subcommand is found by any prefix of its name.
find_prefix(command, name) ==
    { e[2] : e \in { c \in command.commands :
                        Len(name) <= Len(c[1]) /\ SubSeq(c[1], 1, Len(name)) = name } }

\* cmd.commands().find(name): ids of the subcommands registered under name
find(command, name) == { e[2] : e \in { c \in command.commands : c[1] = name } }

\* Variant: declared Arguments are not looked at.
noTokenOutcome_commandsOnly(command, id) ==
    IF command.commands = { }
    THEN OkResult(id)
    ELSE fail("Not enough arguments", EmptyView)

\* Variant: declared subcommands are not looked at.
noTokenOutcome_argumentsOnly(command, id) ==
    IF Len(command.arguments) = 0
    THEN OkResult(id)
    ELSE fail("Not enough arguments", EmptyView)

\* Variant: a Command always succeeds once no token is left.
noTokenOutcome_always(command, id) == OkResult(id)

\* parse / parseCommand: outcome when no positional token is left
noTokenOutcome(command, id) ==
    IF Len(command.arguments) = 0 /\ command.commands = { }
    THEN OkResult(id)
    ELSE fail("Not enough arguments", EmptyView)

\* Variant: the positional tokens left are counted against the Arguments.
leafOutcome_counting(command, id) ==
    IF Len(command.arguments) = 0
    THEN fail("Unexpected arguments given", EmptyView)
    ELSE IF argc - firstPositionalArgument = Len(command.arguments)
    THEN OkResult(id)
    ELSE fail("Not enough arguments", EmptyView)

\* Variant: trailing positional tokens are tolerated on every leaf.
leafOutcome_tolerant(command, id) == OkResult(id)

\* parseCommand: outcome for a positional token when cmd has no subcommands
leafOutcome(command, id) ==
    IF Len(command.arguments) # 0
    THEN OkResult(id)
    ELSE fail("Unexpected arguments given", EmptyView)

\* Variant: only counts below -1 are rejected.
argcNegative_off(count) == count < -1

\* parse: "if (argc < 0)"
argcNegative(count) == count < 0

\* parseOptions: "if (numberMatched < 1)"
noneMatched(n) == n < 1

\* Variant: the error names the whole token, optCntx.argv[i].
unexpectedOption_token(name, token) == fail("Unexpected option '{}'", token)

\* parseOptions: failUint("Unexpected option '{}'", argName)
unexpectedOption(name, token) == fail("Unexpected option '{}'", name)

\* Variant: the subcommand context skips the token after the subcommand name.
subcommandOffset_skip(positionalArgument) == positionalArgument + 2

\* Variant: the subcommand context starts over behind the program name.
subcommandOffset_restart(positionalArgument) == 1

\* Variant: the subcommand context starts at the subcommand name itself.
subcommandOffset_same(positionalArgument) == positionalArgument

\* Variant: the loop never breaks on a token without the prefix.
stopsOptionPhase_never(token, prefix) == FALSE

\* parseOptions: "if (!arg.startsWith(prefix)) break"
stopsOptionPhase(token, prefix) == ~startsWith(token, prefix)

\* Variant: the loop over options ends at the first successful match.
nextOption_break(index, options) == Len(options)

\* parseOptions: the loop over options goes on after a successful match
nextOption(index, options) == index + 1

\* parseCommand: offset of subcomandCntx, "positionalArgument + 1"
subcommandOffset(positionalArgument) == positionalArgument + 1

\* ------------------------------------------------------------------- Init
Init ==
    /\ parser \in ParserNames
    /\ argv \in { << s_app >> \o t : t \in SeqUpTo(TokenPool(parser), MaxArgs) }
    /\ argc \in { -1 } \cup 0..Len(argv)
    /\ pc = "parse"
    /\ cmd = "root"
    /\ offset = 0
    /\ i = 0
    /\ arg = EmptyView
    /\ firstPositionalArgument = 0
    /\ argName = EmptyView
    /\ argValue = None
    /\ optIndex = 0
    /\ numberMatched = 0
    /\ dest \in InitDests
    /\ calls = << >>
    /\ reads = { }
    /\ lookups = << >>
    /\ depth = 0
    /\ result = NoResult
    /\ commandCalls = << >>
    /\ run = 1
    /\ first = [result |-> NoResult, calls |-> << >>, dest |-> dest]

\* Variant: on success the parser runs the Command callback itself.
Return_invoking(r) ==
    /\ result' = r
    /\ commandCalls' = IF r.kind = "ok"
                       THEN Append(commandCalls, r.callback)
                       ELSE commandCalls
    /\ pc' = "done"

\* return of parse: the Result handed to the caller; cmd.callback() only
\* reads the callback, it is not called
Return(r) ==
    /\ result' = r
    /\ commandCalls' = commandCalls
    /\ pc' = "done"

\* parseCommand(c, Context{argc, argv, off, name, parser}) is entered and
\* calls parseOptions, whose loop starts at cntx.offset
EnterCommand(c, off) ==
    /\ cmd' = c
    /\ offset' = off
    /\ i' = off
    /\ firstPositionalArgument' = off
    /\ depth' = depth + 1
    /\ pc' = "options"

\* ---------------------------------------------------------------- actions
\* CommandlineParser::parse(argc, argv)
Parse ==
    /\ pc = "parse"
    /\ IF argcNegative(argc)
       THEN /\ Return(fail("Number of arguments can not be negative", EmptyView))
            /\ UNCHANGED << cmd, offset, i, firstPositionalArgument, depth, reads >>
       ELSE IF argc < 1
            THEN /\ Return(noTokenOutcome(Root, "root"))
                 /\ UNCHANGED << cmd, offset, i, firstPositionalArgument, depth, reads >>
            ELSE /\ reads' = reads \cup { 0 }
                 /\ EnterCommand("root", 1)
                 /\ UNCHANGED << result, commandCalls >>
    /\ UNCHANGED << parser, argc, argv, run, first, arg, argName, argValue, optIndex,
                    numberMatched, dest, calls, lookups >>

\* parseOptions: head of one iteration of the loop over argv, up to the
\* start of the inner loop over the options
OptionsLoop ==
    /\ pc = "options"
    /\ IF ~(i < argc)
       THEN \* loop ends: return Ok(firstPositionalArgument)
            /\ pc' = "dispatch"
            /\ UNCHANGED << i, arg, firstPositionalArgument, argName, argValue,
                            optIndex, numberMatched, reads, result, commandCalls >>
       ELSE IF Argv(i) = NullPtr
       THEN /\ reads' = reads \cup { i }
            /\ Return(fail("Invalid number of arguments!", EmptyView))
            /\ UNCHANGED << i, arg, firstPositionalArgument, argName, argValue,
                            optIndex, numberMatched >>
       ELSE IF stopsOptionPhase(Argv(i), DefaultPrefix)
       THEN \* not a flag: break, return Ok(firstPositionalArgument)
            /\ reads' = reads \cup { i }
            /\ arg' = Argv(i)
            /\ pc' = "dispatch"
            /\ UNCHANGED << i, firstPositionalArgument, argName, argValue,
                            optIndex, numberMatched, result, commandCalls >>
       ELSE LET res == parseOption(Argv(i), DefaultPrefix, DefaultValueSeparator)
            IN  /\ arg' = Argv(i)
                /\ IF hasLookahead(res.value, i, argc)
                   THEN \E nextArg \in ViewsOf(Argv(i + 1)) :
                          /\ reads' = reads \cup { i, i + 1 }
                          /\ IF nextArg.abort
                             THEN /\ pc' = "aborted"
                                  /\ UNCHANGED << i, firstPositionalArgument, argName,
                                                  argValue, optIndex, numberMatched >>
                             ELSE /\ argName' = res.name
                                  /\ optIndex' = 0
                                  /\ numberMatched' = 0
                                  /\ pc' = "match"
                                  /\ IF ~startsWith(nextArg.view, DefaultPrefix)
                                     THEN /\ argValue' = Some(nextArg.view)
                                          /\ i' = i + 1
                                          /\ firstPositionalArgument' =
                                                 firstPositionalArgument + 1
                                     ELSE /\ argValue' = res.value
                                          /\ UNCHANGED << i, firstPositionalArgument >>
                          /\ UNCHANGED << result, commandCalls >>
                   ELSE /\ reads' = reads \cup { i }
                        /\ argName' = res.name
                        /\ argValue' = res.value
                        /\ optIndex' = 0
                        /\ numberMatched' = 0
                        /\ pc' = "match"
                        /\ UNCHANGED << i, firstPositionalArgument, result, commandCalls >>
    /\ UNCHANGED << parser, argc, argv, run, first, cmd, offset, dest, calls, lookups, depth >>

\* parseOptions: one iteration of "for (auto& option : options)"
MatchOption ==
    /\ pc = "match"
    /\ optIndex < Len(Active.options)
    /\ LET option == Active.options[optIndex + 1]
       IN  IF ~isMatch(option, argName)
           THEN /\ optIndex' = optIndex + 1
                /\ UNCHANGED << pc, numberMatched, dest, calls, result, commandCalls >>
           ELSE IF missingRequiredValue(option, argValue)
           THEN /\ Return(fail("Option '{}' expects a value, none were given", argName))
                /\ UNCHANGED << optIndex, numberMatched, dest, calls >>
           ELSE LET r == match(dest, option, argValue)
                IN  /\ numberMatched' = numberMatched + 1
                    /\ calls' = Append(calls, [cmd |-> cmd, option |-> optIndex,
                                               name |-> argName, value |-> argValue,
                                               offset |-> i])
                    /\ dest' = r.dest
                    /\ IF r.err.isErr
                       THEN /\ Return(fail(r.err.msg, r.err.arg))
                            /\ UNCHANGED optIndex
                       ELSE /\ optIndex' = nextOption(optIndex, Active.options)
                            /\ UNCHANGED << pc, result, commandCalls >>
    /\ UNCHANGED << parser, argc, argv, run, first, cmd, offset, i, arg,
                    firstPositionalArgument,
                    argName, argValue, reads, lookups, depth >>

\* parseOptions: after the inner loop, the numberMatched check and the
\* loop increment "++i, ++firstPositionalArgument"
OptionsNext ==
    /\ pc = "match"
    /\ optIndex = Len(Active.options)
    /\ IF noneMatched(numberMatched)
       THEN /\ Return(unexpectedOption(argName, arg))
            /\ UNCHANGED << i, firstPositionalArgument >>
       ELSE /\ i' = i + 1
            /\ firstPositionalArgument' = firstPositionalArgument + 1
            /\ pc' = "options"
            /\ UNCHANGED << result, commandCalls >>
    /\ UNCHANGED << parser, argc, argv, run, first, cmd, offset, arg, argName, argValue,
                    optIndex, numberMatched, dest, calls, reads, lookups, depth >>

\* parseCommand: positional arguments processing, after parseOptions
\* returned Ok(positionalArgument)
Dispatch ==
    /\ pc = "dispatch"
    /\ LET positionalArgument == firstPositionalArgument
       IN  IF positionalArgument < argc
           THEN IF Active.commands # { }
                THEN LET subcmdName == Argv(positionalArgument)
                         cmdIt == find(Active, subcmdName)
                     IN  /\ reads' = reads \cup { positionalArgument }
                         /\ lookups' = Append(lookups,
                                              [cmd |-> cmd, name |-> subcmdName,
                                               index |-> positionalArgument])
                         /\ IF cmdIt = { }
                            THEN /\ Return(fail("Command '{}' not supported", subcmdName))
                                 /\ UNCHANGED << cmd, offset, i,
                                                 firstPositionalArgument, depth >>
                            ELSE /\ \E sub \in cmdIt :
                                       EnterCommand(sub,
                                                    subcommandOffset(positionalArgument))
                                 /\ UNCHANGED << result, commandCalls >>
                ELSE /\ Return(leafOutcome(Active, cmd))
                     /\ UNCHANGED << cmd, offset, i, firstPositionalArgument,
                                     depth, reads, lookups >>
           ELSE /\ Return(noTokenOutcome(Active, cmd))
                /\ UNCHANGED << cmd, offset, i, firstPositionalArgument,
                                depth, reads, lookups >>
    /\ UNCHANGED << parser, argc, argv, run, first, arg, argName, argValue, optIndex,
                    numberMatched, dest, calls >>

Next ==
    \/ Parse
    \/ OptionsLoop
    \/ MatchOption
    \/ OptionsNext
    \/ Dispatch

Spec == Init /\ [][Next]_vars

\* parse runs on the caller's thread from entry to return: a step that can
\* be taken is taken.
SpecLive == Init /\ [][Next]_vars /\ WF_vars(Next)

\* The caller calls parse a second time on the same parser instance with the
\* same argc and argv; parse is a const member and every local starts anew,
\* the destinations keep what the first call wrote.
Reparse ==
    /\ pc = "done"
    /\ run = 1
    /\ run' = 2
    /\ first' = [result |-> result, calls |-> calls, dest |-> dest]
    /\ pc' = "parse"
    /\ cmd' = "root"
    /\ offset' = 0
    /\ i' = 0
    /\ arg' = EmptyView
    /\ firstPositionalArgument' = 0
    /\ argName' = EmptyView
    /\ argValue' = None
    /\ optIndex' = 0
    /\ numberMatched' = 0
    /\ calls' = << >>
    /\ reads' = { }
    /\ lookups' = << >>
    /\ depth' = 0
    /\ result' = NoResult
    /\ UNCHANGED << parser, argc, argv, dest, commandCalls >>

NextTwice ==
    \/ Next
    \/ Reparse

SpecTwice == Init /\ [][NextTwice]_vars

\* parseOption applied to one token that starts with the prefix, as
\* parseOptions does for argv[i]
MaxTokenLen == 4
TokenAlphabet == { "-", "=", "a", "b" }
OptionTokens ==
    { t \in SeqUpTo(TokenAlphabet, MaxTokenLen) : startsWith(t, DefaultPrefix) }
        \cup { Long(s_abc) }

InitOption ==
    /\ parser = "basic"
    /\ argc = 2
    /\ arg \in OptionTokens
    /\ argv = << s_app, arg >>
    /\ pc = "parseOption"
    /\ cmd = "root"
    /\ offset = 1
    /\ i = 1
    /\ firstPositionalArgument = 1
    /\ argName = EmptyView
    /\ argValue = None
    /\ optIndex = 0
    /\ numberMatched = 0
    /\ dest \in InitDests
    /\ calls = << >>
    /\ reads = { 0, 1 }
    /\ lookups = << >>
    /\ depth = 1
    /\ result = NoResult
    /\ commandCalls = << >>
    /\ run = 1
    /\ first = [result |-> NoResult, calls |-> << >>, dest |-> dest]

ParseOptionCall ==
    /\ pc = "parseOption"
    /\ LET res == parseOption(arg, DefaultPrefix, DefaultValueSeparator)
       IN  /\ argName' = res.name
           /\ argValue' = res.value
    /\ pc' = "parsed"
    /\ UNCHANGED << parser, argc, argv, cmd, offset, i, arg,
                    firstPositionalArgument, optIndex, numberMatched, dest,
                    calls, reads, lookups, depth, result, commandCalls, run,
                    first >>

NextOption == ParseOptionCall

SpecOption == InitOption /\ [][NextOption]_vars

\* =================================================================== claims
IsLeaf(command) == Len(command.arguments) = 0 /\ command.commands = { }
SubcommandNames(command) == { c[1] : c \in command.commands }
Last(q) == q[Len(q)]
IsHit(l) == find(CommandTable(parser)[l.cmd], l.name) # { }

\* The option phase of the active Command has completed and parseCommand is
\* about to process the positional tokens.
OptionPhaseDone == pc = "dispatch"

\* C1 (as stated): for a Command with no subcommands and no Arguments, once
\* its option phase completes parse succeeds with that Command's callback,
\* however many positional tokens remain.
C1_TrailingTokensIgnored ==
    [][(OptionPhaseDone /\ IsLeaf(Active)) => result' = OkResult(cmd)]_vars

\* C1 (amended): for a Command with no subcommands and no Arguments, once its
\* option phase completes parse succeeds with that Command's callback exactly
\* when no positional token remains; if at least one remains parse fails
\* with "Unexpected arguments given".
C1_LeafRejectsTrailingTokens ==
    [][(OptionPhaseDone /\ IsLeaf(Active)) =>
          /\ pc' = "done"
          /\ result' = IF firstPositionalArgument < argc
                       THEN fail("Unexpected arguments given", EmptyView)
                       ELSE OkResult(cmd)]_vars

C1_Witness ==
    /\ pc = "done"
    /\ IsLeaf(Active)
    /\ firstPositionalArgument < argc
    /\ result = fail("Unexpected arguments given", EmptyView)

\* C2: when the first positional token after a Command's option phase is the
\* exact name of a registered subcommand, parsing continues in that
\* subcommand with the offset just past the name, the option tokens that
\* follow are applied to the subcommand's Options, and a successful result is
\* the callback of the subcommand; ["app","deploy","--force"] sets force and
\* returns deploy's callback.
C2_Scenario ==
    (parser = "tree" /\ argc = 3 /\ argv = << s_app, s_deploy, Long(s_force) >>
        /\ pc = "done")
    => (result = OkResult("deploy") /\ dest.force = TRUE
        /\ Len(calls) = 1 /\ calls[1].cmd = "deploy")

C2_SubcommandEntered ==
    /\ \A k \in 1..Len(lookups) :
          LET hit == find(CommandTable(parser)[lookups[k].cmd], lookups[k].name)
          IN  hit # { } =>
                IF k = Len(lookups)
                THEN /\ cmd \in hit
                     /\ offset = lookups[k].index + 1
                     /\ \A n \in 1..Len(calls) :
                           calls[n].offset > lookups[k].index => calls[n].cmd = cmd
                     /\ (pc = "done" /\ result.kind = "ok") => result.callback = cmd
                ELSE lookups[k + 1].cmd \in hit
    /\ C2_Scenario

C2_Witness ==
    /\ parser = "tree" /\ argc = 3
    /\ argv = << s_app, s_deploy, Long(s_force) >>
    /\ pc = "done"
    /\ Len(lookups) = 1

\* C3: an option-like token whose resolved name is in no alias set of the
\* active Command's Options makes parse fail with "Unexpected option" naming
\* the stripped option name ("x" for "-x"); no Option callback is invoked for
\* that token.
NoOptionMatches == \A n \in 1..Len(Active.options) : ~isMatch(Active.options[n], argName)

\* name is token without its one or two leading prefix characters, up to the
\* first separator
IsStrippedName(name, token) ==
    \E pre \in { << "-" >>, << "-", "-" >> } :
       /\ Len(token) >= Len(pre) + Len(name)
       /\ SubSeq(token, 1, Len(pre) + Len(name)) = pre \o name
       /\ ~startsWith(name, "-")
       /\ \A n \in 1..Len(name) : name[n] # "="
       /\ Len(token) > Len(pre) + Len(name) => token[Len(pre) + Len(name) + 1] = "="

C3_UnexpectedOption ==
    /\ [][(pc = "match" /\ NoOptionMatches) =>
            /\ calls' = calls
            /\ dest' = dest
            /\ \/ pc' = "match" /\ optIndex' = optIndex + 1 /\ result' = result
               \/ /\ pc' = "done"
                  /\ result' = fail("Unexpected option '{}'", argName)
                  /\ IsStrippedName(result'.arg, arg)]_vars
    /\ []((pc = "match" /\ NoOptionMatches) => numberMatched = 0)
    /\ []((parser = "basic" /\ argc = 2 /\ argv = << s_app, Short(s_x) >> /\ pc = "done")
            => result = fail("Unexpected option '{}'", s_x))

C3_Witness ==
    /\ pc = "done"
    /\ result = fail("Unexpected option '{}'", s_x)
    /\ arg = Short(s_x)
    /\ NoOptionMatches

\* C4: when a Command declares subcommands and the first positional token
\* after its option phase is not the exact name of any of them, parse fails
\* with "Command '<token>' not supported" naming that token and no subcommand
\* is entered.
C4_UnknownSubcommand ==
    [][(OptionPhaseDone /\ firstPositionalArgument < argc
          /\ Active.commands # { }
          /\ Argv(firstPositionalArgument) \notin SubcommandNames(Active)) =>
          /\ pc' = "done"
          /\ result' = fail("Command '{}' not supported", Argv(firstPositionalArgument))
          /\ cmd' = cmd /\ offset' = offset /\ depth' = depth
          /\ calls' = calls /\ dest' = dest]_vars

C4_Witness ==
    /\ pc = "done"
    /\ Active.commands # { }
    /\ result = fail("Command '{}' not supported", s_dep)
    /\ Argv(firstPositionalArgument) = s_dep

\* C5: "--name=value" and "--name value" bind the same value to the matched
\* Option; the offset advances by one token in the inline form and by two in
\* the two-token form; ["app","--name=Alice","--age","30"] yields name ==
\* "Alice", age == 30 and the root callback.
HasSeparator(token) == \E n \in 1..Len(token) : token[n] = "="
IsPositional(ptr) == ptr # NullPtr /\ ~startsWith(ptr, "-")

C5_Scenario ==
    (parser = "basic" /\ argc = 4 /\ pc = "done"
        /\ argv = << s_app, Inline(Long(s_name), s_Alice), Long(s_age), s_30 >>)
    => /\ dest.name = s_Alice
       /\ dest.age = 30
       /\ result = OkResult("root")
       /\ Len(calls) = 2
       /\ calls[1].offset = 1 /\ calls[1].value = Some(s_Alice)
       /\ calls[2].offset = 3 /\ calls[2].value = Some(s_30)
       /\ firstPositionalArgument = 4

C5_InlineAndTwoTokenForms ==
    /\ [][(pc = "options" /\ pc' = "match") =>
            IF HasSeparator(Argv(i))
            THEN /\ i' = i
                 /\ argValue'.some
                 /\ Argv(i) \in { Inline(Short(argName'), argValue'.v),
                                  Inline(Long(argName'), argValue'.v) }
            ELSE IF i + 1 < argc /\ IsPositional(Argv(i + 1))
                 THEN /\ i' = i + 1
                      /\ argValue' = Some(Argv(i + 1))
                 ELSE IF i + 1 < argc /\ Argv(i + 1) = NullPtr
                      THEN i' = i + 1 /\ argValue' = Some(EmptyView)
                      ELSE i' = i /\ argValue' = None]_vars
    /\ [][(pc = "match" /\ pc' = "options") =>
            (i' = i + 1 /\ firstPositionalArgument' = i')]_vars
    /\ [][(calls' # calls /\ Active.options[optIndex + 1].kind = "string") =>
            (argValue.some /\ dest'[Active.options[optIndex + 1].dest] = argValue.v)]_vars
    /\ []C5_Scenario

C5_Witness ==
    /\ parser = "basic" /\ argc = 4 /\ pc = "done"
    /\ argv = << s_app, Inline(Long(s_name), s_Alice), Long(s_age), s_30 >>
    /\ dest.age = 30

\* C6: parse with argc < 0 returns "Number of arguments can not be negative"
\* before any argv entry is read and without invoking any callback.
C6_NegativeArgc ==
    argc < 0 =>
      /\ pc \in { "parse", "done" }
      /\ reads = { }
      /\ calls = << >>
      /\ lookups = << >>
      /\ depth = 0
      /\ dest \in InitDests
      /\ pc = "done" =>
           result = fail("Number of arguments can not be negative", EmptyView)

C6_Witness == argc < 0 /\ pc = "done" /\ result.kind = "err"

\* C7: parse with argc == 0 succeeds with the root Command's callback when the
\* root declares no Arguments and no subcommands, and fails with "Not enough
\* arguments" when the root declares at least one Argument.
C7_EmptyArgv ==
    argc = 0 =>
      /\ pc \in { "parse", "done" }
      /\ reads = { } /\ calls = << >>
      /\ (pc = "done" /\ IsLeaf(Root)) => result = OkResult("root")
      /\ (pc = "done" /\ Len(Root.arguments) >= 1) =>
             result = fail("Not enough arguments", EmptyView)

C7_Witness ==
    /\ argc = 0 /\ pc = "done"
    /\ Len(Root.arguments) >= 1 /\ Root.commands = { }
    /\ result = fail("Not enough arguments", EmptyView)

\* C8 (as stated): when a Command's option phase exhausts argv and the Command
\* declares subcommands, parse fails with "Not enough arguments" unless the
\* Command declares zero Arguments.
C8_NotEnoughUnlessNoArguments ==
    [][(OptionPhaseDone /\ ~(firstPositionalArgument < argc)
          /\ Active.commands # { }) =>
          (result' = fail("Not enough arguments", EmptyView)
             <=> Len(Active.arguments) # 0)]_vars

\* C8 (amended): when a Command's option phase exhausts argv and the Command
\* declares subcommands, parse fails with "Not enough arguments", whether or
\* not the Command declares Arguments.
C8_NotEnoughWithSubcommands ==
    [][(OptionPhaseDone /\ ~(firstPositionalArgument < argc)
          /\ Active.commands # { }) =>
          /\ pc' = "done"
          /\ result' = fail("Not enough arguments", EmptyView)
          /\ depth' = depth /\ lookups' = lookups]_vars

C8_Witness ==
    /\ pc = "done" /\ argc >= 1
    /\ Active.commands # { } /\ Len(Active.arguments) = 0
    /\ firstPositionalArgument = argc
    /\ result = fail("Not enough arguments", EmptyView)

\* C9: after a first failure in the option phase (an Option callback that
\* returns an error, a missing required value, an unmatched option name) no
\* further Option callback is invoked, no subcommand lookup or recursion is
\* attempted, the error is the result of parse, and destinations written
\* before the failure keep their values.
CurrentOption == Active.options[optIndex + 1]

OptionPhaseFails ==
    /\ pc = "match"
    /\ IF optIndex < Len(Active.options)
       THEN /\ isMatch(CurrentOption, argName)
            /\ \/ (~argValue.some /\ CurrentOption.expect = "Required")
               \/ (CurrentOption.kind = "int32" /\ ~tryParseInt(argValue.v).ok)
               \/ (CurrentOption.kind = "bool" /\ argValue.some
                     /\ ~tryParseBool(argValue.v).ok)
               \/ (CurrentOption.kind = "float32" /\ argValue.some
                     /\ strtof(argValue.v).consumed = 0)
               \/ (CurrentOption.kind = "help" /\ argValue.some
                     /\ argValue.v \notin SubcommandNames(Root))
       ELSE numberMatched = 0

C9_FailFast ==
    /\ [][OptionPhaseFails =>
            /\ pc' = "done"
            /\ result'.kind = "err"
            /\ dest' = dest
            /\ Len(calls') <= Len(calls) + 1
            /\ lookups' = lookups /\ depth' = depth /\ cmd' = cmd
            /\ reads' = reads]_vars
    /\ [](pc = "done" => ~ENABLED Next)

C9_Witness ==
    /\ pc = "done"
    /\ result = fail("Failed to parse value", s_Alice)
    /\ Len(calls) = 2
    /\ dest.force = TRUE /\ dest.age = 7
    /\ i < argc - 1

\* C10: when an option token resolves to no value and a matching Option has
\* argument expectation Required, parse fails at once with "Option '<name>'
\* expects a value, none were given" naming the option, and that Option's
\* callback is not invoked.
C10_RequiredValueMissing ==
    [][(pc = "match" /\ optIndex < Len(Active.options)
          /\ isMatch(CurrentOption, argName)
          /\ ~argValue.some /\ CurrentOption.expect = "Required") =>
          /\ pc' = "done"
          /\ result' = fail("Option '{}' expects a value, none were given", argName)
          /\ calls' = calls
          /\ dest' = dest]_vars

C10_Witness ==
    /\ pc = "done"
    /\ result = fail("Option '{}' expects a value, none were given", s_age)
    /\ arg = Long(s_age)
    /\ \A n \in 1..Len(calls) : calls[n].name # s_age

\* C11 (as stated): for each option token the callback of every Option of the
\* active Command whose alias set contains the resolved name is invoked
\* exactly once, in declaration order, with the same resolved value; the
\* token is accepted if and only if at least one Option matched.
TokenCalls(cs, c, index) ==
    LET OfToken(x) == x.cmd = c /\ x.offset = index
    IN  SelectSeq(cs, OfToken)

InvokedOptions(cs) == [k \in 1..Len(cs) |-> cs[k].option]

\* indices (0-based, ascending) of the first n Options that match argName
RECURSIVE MatchingBelow(_)
MatchingBelow(n) ==
    IF n = 0 THEN << >>
    ELSE IF isMatch(Active.options[n], argName)
         THEN Append(MatchingBelow(n - 1), n - 1)
         ELSE MatchingBelow(n - 1)

AllMatching == MatchingBelow(Len(Active.options))

C11_EveryMatchInvoked ==
    [][(pc = "match" /\ pc' # "match") =>
          /\ InvokedOptions(TokenCalls(calls', cmd, i)) = AllMatching
          /\ (pc' = "options" <=> Len(AllMatching) >= 1)]_vars

\* C11 (amended): for each option token the callbacks of the Options of the
\* active Command whose alias set contains the resolved name are invoked in
\* declaration order, each at most once and with the same resolved value, up
\* to the first one that fails (a Required Option without a value, or a
\* callback returning an error), after which no further Option is invoked;
\* several Options sharing an alias is not an error, and the token is accepted
\* if and only if at least one Option matched and none of them failed.
C11_InvokedSoFar ==
    pc = "match" =>
      LET tc == TokenCalls(calls, cmd, i)
      IN  /\ InvokedOptions(tc) = MatchingBelow(optIndex)
          /\ numberMatched = Len(tc)
          /\ \A k \in 1..Len(tc) : tc[k].value = argValue /\ tc[k].name = argName

C11_MatchesInvokedUntilFailure ==
    /\ []C11_InvokedSoFar
    /\ [][(pc = "match" /\ pc' = "options") =>
            /\ optIndex = Len(Active.options)
            /\ Len(AllMatching) >= 1
            /\ InvokedOptions(TokenCalls(calls', cmd, i)) = AllMatching
            /\ result' = NoResult]_vars
    /\ [][(pc = "match" /\ pc' = "done") =>
            /\ result'.kind = "err"
            /\ \/ AllMatching = << >>
               \/ /\ optIndex < Len(Active.options)
                  /\ isMatch(CurrentOption, argName)
                  /\ InvokedOptions(TokenCalls(calls', cmd, i))
                        \in { MatchingBelow(optIndex), MatchingBelow(optIndex + 1) }]_vars
    /\ [][(pc = "match" /\ optIndex = Len(Active.options)
             /\ Len(AllMatching) >= 1) => pc' = "options"]_vars

C11_Witness ==
    /\ parser = "dup" /\ pc = "options"
    /\ Len(calls) = 2
    /\ calls[1].offset = calls[2].offset
    /\ calls[1].option = 0 /\ calls[2].option = 1
    /\ calls[1].value = calls[2].value
    /\ dest.force = TRUE /\ dest.name = s_true

\* C12: for every boolean Option, a token that matches it with no inline
\* value and no following value sets the destination to true; with the value
\* "false" it sets the destination to false; with a value that is not a
\* boolean literal the parse fails and the destination is not written.
MatchesCurrent(kind) ==
    /\ pc = "match"
    /\ optIndex < Len(Active.options)
    /\ isMatch(CurrentOption, argName)
    /\ CurrentOption.kind = kind

C12_BooleanOption ==
    [][MatchesCurrent("bool") =>
          /\ calls' = Append(calls, [cmd |-> cmd, option |-> optIndex,
                                     name |-> argName, value |-> argValue,
                                     offset |-> i])
          /\ IF ~argValue.some
             THEN /\ dest' = [dest EXCEPT ![CurrentOption.dest] = TRUE]
                  /\ pc' = "match" /\ result' = NoResult
             ELSE IF argValue.v = s_false
             THEN /\ dest' = [dest EXCEPT ![CurrentOption.dest] = FALSE]
                  /\ pc' = "match" /\ result' = NoResult
             ELSE IF argValue.v = s_true
             THEN /\ dest' = [dest EXCEPT ![CurrentOption.dest] = TRUE]
                  /\ pc' = "match" /\ result' = NoResult
             ELSE /\ dest' = dest
                  /\ pc' = "done"
                  /\ result'.kind = "err"]_vars

C12_Witness ==
    /\ parser = "dup" /\ pc = "done" /\ run = 1
    /\ result = OkResult("root")
    /\ first.dest.force = TRUE
    /\ dest.force = FALSE
    /\ Len(calls) = 1
    /\ calls[1].name = s_force /\ calls[1].value = Some(s_false)

\* C13: for every integer or float Option, a valid numeric value writes
\* exactly the parsed value to the destination; a value that fails conversion
\* leaves the destination unmodified and makes parse return an error.
Written(v) ==
    /\ dest' = [dest EXCEPT ![CurrentOption.dest] = v]
    /\ pc' = "match"
    /\ result' = NoResult

ConversionFailed ==
    /\ dest' = dest
    /\ pc' = "done"
    /\ result'.kind = "err"

C13_NumericOption ==
    [][((MatchesCurrent("int32") \/ MatchesCurrent("float32")) /\ argValue.some) =>
          /\ Len(calls') = Len(calls) + 1
          /\ CASE argValue.v = s_30 -> Written(30)
               [] argValue.v = s_1 -> Written(1)
               [] argValue.v = s_3x ->
                    IF CurrentOption.kind = "float32"
                    THEN Written(3)
                    ELSE ConversionFailed
               [] argValue.v \in { s_Alice, EmptyView } -> ConversionFailed
               [] OTHER ->
                    \/ ConversionFailed
                    \/ (dest'[CurrentOption.dest] \in Int
                          /\ Written(dest'[CurrentOption.dest]))]_vars

C13_Witness ==
    /\ parser = "num" /\ pc = "done" /\ run = 1
    /\ result.kind = "err"
    /\ Len(calls) = 2
    /\ calls[1].name = s_age /\ calls[2].name = s_rate
    /\ first.dest.age = 7 /\ dest.age = 30
    /\ first.dest.rate = 7 /\ dest.rate = 7

\* C14: parsing never mutates the Command tree or the Option/Argument
\* definitions, and parsing the same argv twice with the same parser instance
\* yields the same Result, the same sequence of callback invocations and the
\* same final destination values.
C14_SecondParseAgrees ==
    /\ [][parser' = parser /\ argv' = argv /\ argc' = argc]_vars
    /\ []((run = 2 /\ pc = "done") =>
            /\ result = first.result
            /\ calls = first.calls
            /\ dest = first.dest)

C14_Witness ==
    /\ run = 2 /\ pc = "done"
    /\ parser = "basic"
    /\ result = OkResult("root")
    /\ Len(calls) = 2
    /\ dest.age = 30 /\ dest.name = s_Alice

\* C15: during a parse call no Command callback is invoked by the parser; a
\* successful parse only returns the callback of the deepest matched Command
\* as the ParseResult.
C15_CallbackReturnedNotInvoked ==
    /\ commandCalls = << >>
    /\ (pc = "done" /\ result.kind = "ok") =>
          /\ result.callback = cmd
          /\ \A k \in 1..Len(lookups) : IsHit(lookups[k])
          /\ depth = Len(lookups) + (IF argc < 1 THEN 0 ELSE 1)

C15_Witness ==
    /\ parser = "tree" /\ pc = "done"
    /\ result = OkResult("inner")
    /\ depth = 3
    /\ commandCalls = << >>

\* C16: a token equal to just the prefix character, or one with nothing left
\* after stripping one or two prefix characters, resolves to the empty option
\* name with no inline value; the parse then fails with "Unexpected option"
\* carrying an empty name unless some Option of the active Command has an
\* empty-string alias.
IsBarePrefix(token) == token \in { << "-" >>, << "-", "-" >> }
HasEmptyAlias == \E n \in 1..Len(Active.options) : EmptyView \in Active.options[n].names

C16_BarePrefixToken ==
    /\ [][(pc = "options" /\ pc' = "match" /\ IsBarePrefix(Argv(i))) =>
            /\ arg' = Argv(i)
            /\ argName' = EmptyView
            /\ argValue'.some => (i' = i + 1 /\ argValue'.v \in { Argv(i + 1), EmptyView })
            /\ ~argValue'.some => i' = i]_vars
    /\ [][(pc = "match" /\ IsBarePrefix(arg) /\ ~HasEmptyAlias) =>
            /\ calls' = calls
            /\ dest' = dest
            /\ \/ pc' = "match" /\ result' = NoResult
               \/ pc' = "done" /\ result' = fail("Unexpected option '{}'", EmptyView)]_vars
    /\ []((pc = "match" /\ IsBarePrefix(arg) /\ ~HasEmptyAlias) => numberMatched = 0)
    /\ [][(pc = "match" /\ IsBarePrefix(arg) /\ HasEmptyAlias) =>
            result'.msg # "Unexpected option '{}'"]_vars

C16_Witness ==
    /\ parser = "edge" /\ pc = "done"
    /\ arg = << "-", "-" >>
    /\ cmd = "root"
    /\ result = fail("Unexpected option '{}'", EmptyView)

\* A bare prefix token is accepted by the Option with the empty alias.
C16_EmptyAliasReached ==
    /\ parser = "edge" /\ cmd = "sub1" /\ pc = "options"
    /\ Len(calls) = 1 /\ calls[1].name = EmptyView

\* C17: the built-in help Option (aliases "h" and "help") takes an optional
\* value; when a value is resolved and is not the name of a subcommand
\* registered with the parser, its callback returns "Unknown command" and the
\* parse fails; with no value, or with the name of a registered subcommand,
\* the callback succeeds and the option phase goes on.
C17_HelpOption ==
    /\ [](\A p \in ParserNames : \A id \in DOMAIN CommandTable(p) :
            \A n \in 1..Len(CommandTable(p)[id].options) :
               CommandTable(p)[id].options[n].kind = "help" =>
                  /\ CommandTable(p)[id].options[n].names = { s_h, s_help }
                  /\ CommandTable(p)[id].options[n].expect = "NotRequired")
    /\ [][MatchesCurrent("help") =>
            /\ calls' = Append(calls, [cmd |-> cmd, option |-> optIndex,
                                       name |-> argName, value |-> argValue,
                                       offset |-> i])
            /\ dest' = dest
            /\ IF argValue.some /\ argValue.v \notin SubcommandNames(Root)
               THEN /\ pc' = "done"
                    /\ result' = fail("Unknown command", EmptyView)
               ELSE /\ pc' = "match"
                    /\ result' = NoResult
                    /\ optIndex' = optIndex + 1
                    /\ numberMatched' = numberMatched + 1]_vars

C17_Witness ==
    /\ parser = "help" /\ pc = "done"
    /\ cmd = "deploy"
    /\ Len(calls) = 1
    /\ calls[1].value = Some(s_inner)
    /\ result = fail("Unknown command", EmptyView)

\* The help Option of a nested Command accepts the name of a top-level
\* subcommand.
C17_NamedSubcommandReached ==
    /\ parser = "help" /\ pc = "done"
    /\ cmd = "deploy"
    /\ Len(calls) = 1
    /\ calls[1].value = Some(s_deploy)
    /\ result.kind = "err" /\ result.msg = "Not enough arguments"

\* C18: the option phase of a Command stops at the first token it examines
\* that does not start with the prefix character; every token from that
\* position on is left to positional dispatch, so an option-like token after
\* a positional token is never matched against the current Command's Options.
ConsumedAsValue(k) ==
    /\ k > offset
    /\ Argv(k - 1) # NullPtr
    /\ startsWith(Argv(k - 1), "-")
    /\ ~HasSeparator(Argv(k - 1))

C18_OptionPhaseStops ==
    /\ [][(pc = "options" /\ i < argc /\ IsPositional(Argv(i))) =>
            /\ pc' = "dispatch"
            /\ firstPositionalArgument' = i
            /\ i' = i
            /\ calls' = calls
            /\ dest' = dest]_vars
    /\ [][pc = "dispatch" => (calls' = calls /\ dest' = dest)]_vars
    /\ [](\A n \in 1..Len(calls) : calls[n].cmd = cmd =>
            \A k \in offset..calls[n].offset :
               ~IsPositional(Argv(k)) \/ ConsumedAsValue(k))
    /\ [](\A n \in 1..Len(calls) : \A l \in 1..Len(lookups) :
            calls[n].cmd = lookups[l].cmd => calls[n].offset < lookups[l].index)

C18_Witness ==
    /\ parser = "args" /\ pc = "done"
    /\ argc = 3
    /\ argv = << s_app, s_Alice, Long(s_force) >>
    /\ calls = << >>
    /\ dest.force = first.dest.force
    /\ result = OkResult("root")

\* C19: for every token starting with the prefix, parseOption returns as name
\* the token with one leading prefix character stripped, or two when the
\* second character is the prefix too, cut at the first separator at or after
\* the name start; the value is Some(everything after that separator) when a
\* separator occurs and None otherwise ("--a=b=c": name "a", value "b=c").
StrippedCount(token) == IF Len(token) >= 2 /\ token[2] = "-" THEN 2 ELSE 1
Stripped(token) == SubSeq(token, StrippedCount(token) + 1, Len(token))
FirstSeparator(rest) ==
    IF \E n \in 1..Len(rest) : rest[n] = "="
    THEN CHOOSE n \in 1..Len(rest) :
            rest[n] = "=" /\ \A m \in 1..(n - 1) : rest[m] # "="
    ELSE 0

C19_ParseOption ==
    pc = "parsed" =>
       /\ arg[1] = "-"
       /\ LET rest == Stripped(arg)
              n == FirstSeparator(rest)
          IN  IF n = 0
              THEN argName = rest /\ argValue = None
              ELSE /\ argName = SubSeq(rest, 1, n - 1)
                   /\ argValue = Some(SubSeq(rest, n + 1, Len(rest)))
       /\ arg = Long(s_abc) =>
             (argName = << "a" >> /\ argValue = Some(<< "b", "=", "c" >>))

C19_Witness ==
    /\ pc = "parsed"
    /\ arg = Long(s_abc)
    /\ argName = << "a" >>
    /\ argValue = Some(<< "b", "=", "c" >>)

\* C20: whenever an option token has no inline value and the next argv token
\* exists and does not start with the prefix, that token is consumed as the
\* option's value, whatever the argument expectation of the Options matching
\* the name; it is then never looked up as a subcommand name nor taken as a
\* positional token.
IsOptionToken(ptr) == ptr # NullPtr /\ startsWith(ptr, "-")
TakesNext(k) ==
    /\ IsOptionToken(Argv(k))
    /\ ~HasSeparator(Argv(k))
    /\ k + 1 < argc
    /\ IsPositional(Argv(k + 1))

C20_NextTokenConsumed ==
    /\ [][(pc = "options" /\ i < argc /\ TakesNext(i)) =>
            /\ pc' = "match"
            /\ argValue' = Some(Argv(i + 1))
            /\ i' = i + 1
            /\ firstPositionalArgument' = firstPositionalArgument + 1
            /\ lookups' = lookups]_vars
    /\ [][(pc = "match" /\ optIndex < Len(Active.options) /\ i > offset
             /\ TakesNext(i - 1) /\ isMatch(CurrentOption, argName)) =>
            calls' = Append(calls, [cmd |-> cmd, option |-> optIndex,
                                    name |-> argName, value |-> Some(Argv(i)),
                                    offset |-> i])]_vars
    /\ [](\A l \in 1..Len(lookups) :
            lookups[l].index > 1 => ~TakesNext(lookups[l].index - 1))
    /\ []((pc = "dispatch" /\ firstPositionalArgument < argc
             /\ firstPositionalArgument > offset) =>
            ~TakesNext(firstPositionalArgument - 1))

C20_Witness ==
    /\ parser = "help" /\ pc = "done"
    /\ argc = 3
    /\ argv = << s_app, Short(s_h), s_deploy >>
    /\ Len(calls) = 1
    /\ Active.options[calls[1].option + 1].expect = "NotRequired"
    /\ calls[1].value = Some(s_deploy)
    /\ lookups = << >>
    /\ firstPositionalArgument = 3

\* C21: for every root Command, parse with argc = 0 and parse with argc = 1
\* (argv holding only the program name) give the same outcome: success with
\* the root callback exactly when the root declares no Arguments and no
\* subcommands, "Not enough arguments" otherwise.
RootOutcome ==
    IF Len(Root.arguments) = 0 /\ Root.commands = { }
    THEN OkResult("root")
    ELSE fail("Not enough arguments", EmptyView)

C21_ZeroAndOneAgree ==
    (pc = "done" /\ argc \in { 0, 1 }) =>
       /\ result = RootOutcome
       /\ cmd = "root"
       /\ calls = << >> /\ lookups = << >>
       /\ dest = first.dest
       /\ commandCalls = << >>

C21_Witness ==
    /\ pc = "done" /\ argc = 1 /\ argv = << s_app >>
    /\ depth = 1
    /\ Len(Root.arguments) = 0 /\ Root.commands = { }
    /\ result = OkResult("root")

\* The same parser called with argc = 0 answers without entering parseCommand.
C21_ZeroReached ==
    /\ pc = "done" /\ argc = 0 /\ argv = << s_app >>
    /\ depth = 0
    /\ Len(Root.arguments) = 0 /\ Root.commands = { }
    /\ result = OkResult("root")

\* With argc = 1 a root that declares subcommands is refused.
C21_OneRefusedReached ==
    /\ pc = "done" /\ argc = 1 /\ depth = 1
    /\ Root.commands # { }
    /\ result = fail("Not enough arguments", EmptyView)

\* C22: parse terminates for every finite argv and finite Command tree; each
\* recursion into a subcommand strictly increases the offset; the number of
\* recursive descents equals the number of subcommand names consumed from argv
\* (exactly one for ["app", "sub1", "--flag=1"], whose sub1 option phase runs
\* once and before its leaf dispatch) and never exceeds the depth of the
\* Command tree.
RECURSIVE Height(_, _)
Height(p, id) ==
    LET subs == { c[2] : c \in CommandTable(p)[id].commands }
    IN  IF subs = { }
        THEN 0
        ELSE 1 + (CHOOSE h \in { Height(p, c) : c \in subs } :
                     \A g \in { Height(p, c) : c \in subs } : g <= h)

Terminated == pc \in { "done", "aborted" }
Descents == IF depth = 0 THEN 0 ELSE depth - 1
NamesConsumed == { k \in 1..Len(lookups) : IsHit(lookups[k]) }

C22_Terminates ==
    /\ <>Terminated
    /\ [](Terminated => ~ENABLED Next)
    /\ [][(pc = "dispatch" /\ pc' = "options") =>
            /\ offset' > offset
            /\ offset' = firstPositionalArgument + 1
            /\ depth' = depth + 1
            /\ Len(lookups') = Len(lookups) + 1
            /\ Last(lookups').index = firstPositionalArgument
            /\ cmd' \in find(Active, Argv(firstPositionalArgument))]_vars
    /\ [][(depth' # depth /\ depth > 0) => (pc = "dispatch" /\ pc' = "options")]_vars
    /\ [](/\ Descents = Cardinality(NamesConsumed)
          /\ Descents <= Height(parser, "root")
          /\ \A k, l \in 1..Len(lookups) :
                k < l => lookups[k].index < lookups[l].index)
    /\ []((parser = "flat" /\ argc = 3 /\ pc = "done"
             /\ argv = << s_app, s_sub1, Inline(Long(s_flag), s_1) >>) =>
            /\ Descents = 1
            /\ lookups = << [cmd |-> "root", name |-> s_sub1, index |-> 1] >>
            /\ calls = << [cmd |-> "sub1", option |-> 0, name |-> s_flag,
                           value |-> Some(s_1), offset |-> 2] >>
            /\ dest.flag = 1
            /\ result = OkResult("sub1"))

C22_Witness ==
    /\ parser = "flat" /\ argc = 3 /\ pc = "done"
    /\ argv = << s_app, s_sub1, Inline(Long(s_flag), s_1) >>
    /\ depth = 2
    /\ Len(calls) = 1
    /\ result = OkResult("sub1")

\* The deepest chain of the nested tree is walked to its end.
C22_DeepestReached ==
    /\ parser = "tree" /\ pc = "done"
    /\ Descents = 2 /\ Descents = Height(parser, "root")

\* C23: no Argument callback is ever invoked by parse; for a Command with
\* declared Arguments and no subcommands, as soon as at least one positional
\* token remains parse returns the Command's callback without binding any
\* token to an Argument and without checking how many positional tokens there
\* are, so the destinations bound to Arguments are unchanged by every parse.
ArgumentsOf(p, id) ==
    { CommandTable(p)[id].arguments[n] : n \in 1..Len(CommandTable(p)[id].arguments) }
ArgumentDests ==
    UNION { UNION { ArgumentsOf(p, id) : id \in DOMAIN CommandTable(p) } :
            p \in ParserNames }

C23_ArgumentsNotBound ==
    /\ [][(pc = "dispatch" /\ firstPositionalArgument < argc
             /\ Active.commands = { } /\ Len(Active.arguments) >= 1) =>
            /\ pc' = "done"
            /\ result' = OkResult(cmd)
            /\ dest' = dest
            /\ calls' = calls
            /\ reads' = reads
            /\ lookups' = lookups]_vars
    /\ [](\A n \in 1..Len(calls) :
            CommandTable(parser)[calls[n].cmd]
               .options[calls[n].option + 1].dest \notin ArgumentDests)
    /\ [][\A a \in ArgumentDests : dest'[a] = dest[a]]_vars
    /\ [](\A a \in ArgumentDests : dest[a] = first.dest[a])

C23_Witness ==
    /\ parser = "args" /\ pc = "done" /\ argc = 3
    /\ argv = << s_app, s_Alice, s_30 >>
    /\ Len(Active.arguments) = 1
    /\ firstPositionalArgument = 1
    /\ reads = { 0, 1 }
    /\ dest.file = EmptyView
    /\ result = OkResult("root")

\* C24: Options are scoped to the Command being parsed; an option token
\* located after a subcommand name is matched only against that subcommand's
\* Options and never against an ancestor's, so a token naming an Option
\* declared only on the root fails with "Unexpected option" when it appears
\* after the subcommand name.
ScopedOptions(id) == CommandTable(parser)[id].options
MatchesIn(id, name) ==
    \E n \in 1..Len(ScopedOptions(id)) : isMatch(ScopedOptions(id)[n], name)

\* The Command whose option phase covers argv index k: the one entered by the
\* last subcommand name found before k.
HitsBefore(k) == { l \in NamesConsumed : lookups[l].index < k }
Owner(k) ==
    IF HitsBefore(k) = { }
    THEN "root"
    ELSE LET l == CHOOSE h \in HitsBefore(k) : \A g \in HitsBefore(k) : g <= h
         IN  CHOOSE id \in find(CommandTable(parser)[lookups[l].cmd], lookups[l].name) :
                TRUE

C24_OptionsScoped ==
    /\ [](\A n \in 1..Len(calls) :
            /\ calls[n].cmd = Owner(calls[n].offset)
            /\ calls[n].option < Len(ScopedOptions(calls[n].cmd))
            /\ isMatch(ScopedOptions(calls[n].cmd)[calls[n].option + 1], calls[n].name))
    /\ [][(pc = "match" /\ ~MatchesIn(cmd, argName)) =>
            /\ calls' = calls
            /\ dest' = dest
            /\ IF optIndex < Len(ScopedOptions(cmd))
               THEN pc' = "match" /\ optIndex' = optIndex + 1
               ELSE /\ pc' = "done"
                    /\ result' = fail("Unexpected option '{}'", argName)]_vars

C24_Witness ==
    /\ parser = "tree" /\ pc = "done"
    /\ cmd = "deploy"
    /\ argName = s_verbose
    /\ MatchesIn("root", argName) /\ ~MatchesIn("deploy", argName)
    /\ calls = << >>
    /\ dest.verbose = first.dest.verbose
    /\ result = fail("Unexpected option '{}'", s_verbose)

\* C25: in every reachable state of the option phase the index of the first
\* positional argument equals the loop index and lies within [context offset,
\* argc]; every argv index read (current token, look-ahead token, subcommand
\* name) is strictly below argc; the offset returned on success is at most
\* argc.
InOptionPhase == pc \in { "options", "match" }

C25_IndexBounds ==
    /\ InOptionPhase =>
          /\ firstPositionalArgument = i
          /\ offset <= firstPositionalArgument
          /\ firstPositionalArgument <= argc
          /\ 1 <= offset
    /\ pc = "match" => i < argc
    /\ \A k \in reads : 0 <= k /\ k < argc
    /\ \A l \in 1..Len(lookups) : lookups[l].index < argc /\ lookups[l].index \in reads
    /\ \A n \in 1..Len(calls) : calls[n].offset < argc /\ calls[n].offset \in reads
    /\ pc = "dispatch" =>
          /\ offset <= firstPositionalArgument
          /\ firstPositionalArgument <= argc

C25_Witness ==
    /\ parser = "basic" /\ pc = "dispatch"
    /\ argc = 3
    /\ argv = << s_app, Long(s_name), s_Alice, Long(s_age) >>
    /\ firstPositionalArgument = argc
    /\ i = argc
    /\ reads = { 0, 1, 2 }
    /\ Len(calls) = 1 /\ calls[1].offset = 2

====
